---------------------------- MODULE Spec2Model ----------------------------
(* State-machine model of streamlit_app.py (Coqui TTS Voice Generator).    *)
(*                                                                         *)
(* One Streamlit script run is the sequence of steps                       *)
(*   StartRun -> GetAvailableModels -> Sidebar -> LoadTTSModel ->          *)
(*   (ProbeSpeakers | SaveUploads) -> Generate... -> Finish.               *)
(* The process-wide state that survives a run is the st.cache_resource     *)
(* cache of load_tts_model and the temporary files on disk; script locals  *)
(* are discarded by Finish.  None is the falsy value of each type.          *)
EXTENDS Integers, Sequences, FiniteSets, TLC

\* ----------------------------------------------------------------- bounds
\* Number of script runs (user interactions) explored in one session.
MaxRuns == 3
\* Longest catalog the library enumeration returns in CatalogSpec.
MaxCatalog == 3

\* ---------------------------------------------------------------- strings
\* Model identifiers of the library's registry and the markers the code
\* searches them for.
M_ljspeech == "tts_models/en/ljspeech/tacotron2-DDC"

M_vctk == "tts_models/en/vctk/vits"

M_xtts == "tts_models/multilingual/multi-dataset/xtts_v2"

M_your_tts == "tts_models/multilingual/multi-dataset/your_tts"

M_bark == "tts_models/multilingual/multi-dataset/bark"

M_hifigan == "vocoder_models/en/ljspeech/hifigan_v2"

S_tts_models == "tts_models"

S_your_tts == "your_tts"

S_xtts == "xtts"

S_multi_dataset == "multi-dataset"

\* The characters of each string above, for the substring test.
Chars(str) ==
    CASE str = M_ljspeech ->
           <<"t","t","s","_","m","o","d","e","l","s","/","e","n","/","l","j","s","p","e","e","c","h","/","t","a","c","o","t","r","o","n","2","-","D","D","C">>
      [] str = M_vctk ->
           <<"t","t","s","_","m","o","d","e","l","s","/","e","n","/","v","c","t","k","/","v","i","t","s">>
      [] str = M_xtts ->
           <<"t","t","s","_","m","o","d","e","l","s","/","m","u","l","t","i","l","i","n","g","u","a","l","/","m","u","l","t","i","-","d","a","t","a","s","e","t","/","x","t","t","s","_","v","2">>
      [] str = M_your_tts ->
           <<"t","t","s","_","m","o","d","e","l","s","/","m","u","l","t","i","l","i","n","g","u","a","l","/","m","u","l","t","i","-","d","a","t","a","s","e","t","/","y","o","u","r","_","t","t","s">>
      [] str = M_bark ->
           <<"t","t","s","_","m","o","d","e","l","s","/","m","u","l","t","i","l","i","n","g","u","a","l","/","m","u","l","t","i","-","d","a","t","a","s","e","t","/","b","a","r","k">>
      [] str = M_hifigan ->
           <<"v","o","c","o","d","e","r","_","m","o","d","e","l","s","/","e","n","/","l","j","s","p","e","e","c","h","/","h","i","f","i","g","a","n","_","v","2">>
      [] str = S_tts_models ->
           <<"t","t","s","_","m","o","d","e","l","s">>
      [] str = S_your_tts ->
           <<"y","o","u","r","_","t","t","s">>
      [] str = S_xtts ->
           <<"x","t","t","s">>
      [] str = S_multi_dataset ->
           <<"m","u","l","t","i","-","d","a","t","a","s","e","t">>

\* Identifiers the library's enumeration can return (entries of Coqui's
\* model registry: TTS models, a vocoder).
ModelUniverse ==
    {M_ljspeech, M_vctk, M_xtts, M_your_tts, M_bark, M_hifigan}

\* The enumeration of the installed library, as TTS().list_models() returns
\* it: a single-speaker model, a multi-speaker model, a cloning-capable
\* model and a vocoder.
InstalledCatalog ==
    <<M_ljspeech, M_vctk, M_bark, M_hifigan>>

Range(s) ==
    {s[i] : i \in DOMAIN s}

\* Python's `sub in s` on strings: sub occurs as a contiguous substring of s.
Contains(sub, str) ==
    LET p == Chars(sub)
        s == Chars(str)
    IN \E i \in 1..(Len(s) - Len(p) + 1) : SubSeq(s, i, i + Len(p) - 1) = p

\* ------------------------------------------------------------ None values
NoModel == "None"
NoHandle == [model |-> NoModel, serial |-> 0]
NoPath == [kind |-> "none", id |-> 0]
NoFile == "None"
Omitted == "<omitted>"
Unset == ""


\* ------------------------------------------------------- widgets and files
\* st.selectbox(label, options): the values it can return; None when there
\* are no options.
selectbox(options, none) ==
    IF options = <<>> THEN {none} ELSE Range(options)

\* st.radio(label, options): one of the options.
radio(options) ==
    Range(options)

\* st.file_uploader(...): None, or the uploaded file.
file_uploader(content) ==
    {NoFile, content}

\* tempfile.NamedTemporaryFile(delete=False, suffix=".wav"): a fresh path.
NamedTemporaryFile(kind, n) ==
    [kind |-> kind, id |-> n]

\* os.unlink(path)
unlink(d, path) ==
    d \ {path}

\* str.lower() on the two voice types.
lower(s) ==
    IF s = "Male" THEN "male" ELSE IF s = "Female" THEN "female" ELSE s

\* The exception object a failing library call raises, as formatted by {e}.
LibError == "LibError"

\* ------------------------------------------------- get_available_models
IsSingleSpeaker(model) ==
    /\ Contains(S_tts_models, model)
    /\ ~ \E x \in {S_your_tts, S_xtts} : Contains(x, model)

IsCloning(model) ==
    /\ Contains(S_tts_models, model)
    /\ \E x \in {S_your_tts, S_xtts, S_multi_dataset} : Contains(x, model)

get_available_models(all_models) ==
    [single_speaker |-> SelectSeq(all_models, IsSingleSpeaker),
     voice_cloning  |-> SelectSeq(all_models, IsCloning)]

\* except clause of get_available_models
ExceptGetModels(e) ==
    [propagates |-> FALSE,
     shown  |-> <<[at |-> "enumerate", msg |-> <<"Error getting models: ", e>>]>>,
     result |-> [single_speaker |-> <<>>, voice_cloning |-> <<>>]]

\* ------------------------------------------------------- load_tts_model
\* except clause of load_tts_model, silent variant (faulty variant)
ExceptLoadSilent(e) ==
    [propagates |-> FALSE, shown |-> <<>>, result |-> NoHandle]

\* except clause of load_tts_model
ExceptLoad(e) ==
    [propagates |-> FALSE,
     shown  |-> <<[at |-> "load", msg |-> <<"Error loading model: ", e>>]>>,
     result |-> NoHandle]

\* st.cache_resource without memoisation (faulty variant)
CacheHitNever(c, m) ==
    FALSE

\* st.cache_resource: an entry exists for this argument.
CacheHit(c, m) ==
    m \in DOMAIN c

\* Value of a per-model record, `none` for a model it has no entry for.
Lookup(f, m, none) ==
    IF m \in DOMAIN f THEN f[m] ELSE none

\* st.cache_resource: store the function's return value under its argument.
CacheStore(c, m, v) ==
    [x \in DOMAIN c \cup {m} |-> IF x = m THEN v ELSE c[x]]

\* Script position after load_tts_model, ignoring whether it failed (faulty variant)
AfterLoadUnchecked(h, md) ==
    IF md = "Pre-trained voices" THEN "probe" ELSE "upload"

\* `if tts_model:` - the rest of the mode's block runs only with a handle.
AfterLoad(h, md) ==
    IF h = NoHandle THEN "end"
    ELSE IF md = "Pre-trained voices" THEN "probe" ELSE "upload"

\* ------------------------------------------------------ pre-trained mode
\* tts_model.speakers of a loaded model: the named speakers, empty if none.
SpeakersOf(m) ==
    IF m = M_vctk THEN <<"p225", "p226">> ELSE <<>>

\* `except: pass` around the speaker probe
ExceptProbe(e) ==
    [propagates |-> FALSE, shown |-> <<>>]

\* speaker argument always omitted (faulty variant)
SpeakerArgNever(spk, idx) ==
    Omitted

\* `if speakers and speaker_idx:` - the speaker keyword of tts_to_file.
SpeakerArg(spk, idx) ==
    IF spk # <<>> /\ idx # Unset THEN idx ELSE Omitted

\* except clause of both Generate Speech handlers
ExceptSynth(e) ==
    [propagates |-> FALSE,
     shown |-> <<[at |-> "synth", msg |-> <<"Error generating speech: ", e>>]>>]

\* ----------------------------------------------------- voice cloning mode
\* language list with a code outside the supported set (faulty variant)
languagesExtra ==
    <<"en", "es", "fr", "de", "it", "pt", "pl", "tr", "ru", "nl", "cs", "ar", "zh-cn", "ja", "xx">>

languages ==
    <<"en", "es", "fr", "de", "it", "pt", "pl", "tr", "ru", "nl", "cs", "ar", "zh-cn", "ja">>

\* whichever sample exists, regardless of the selected voice (faulty variant)
VoiceSamplePathAny(vt, male, female) ==
    IF male # NoPath THEN male ELSE female

\* voice_sample_path = male_sample_path if voice_type == "Male" else female_sample_path
VoiceSamplePath(vt, male, female) ==
    IF vt = "Male" THEN male ELSE female

MissingSample(vt) ==
    [at |-> "input", msg |-> <<"Please upload a ", lower(vt), " voice sample first">>]

\* ------------------------------------------------------------------ state
VARIABLES
    runs,               \* script runs started in this session
    pc,                 \* position of the current script run
    catalog,            \* what TTS().list_models() returns
    cache,              \* st.cache_resource entries of load_tts_model
    disk,               \* temporary files that exist
    nextFile,           \* serial of the next temporary file name
    ctorCalls,          \* per model: TTS(model_name) constructor invocations
    returned,           \* per model: the values load_tts_model has returned
    models, mode, model_name, selected_language, tts_model,
    speakers, speaker_idx,
    male_file, female_file, male_sample_path, female_sample_path, voice_type,
    clicked,            \* st.button("Generate Speech") of this run
    hit,                \* load_tts_model was served from the cache in this run
    errors,             \* st.error messages shown in this run
    calls,              \* tts_to_file calls made in this run
    created,            \* temporary files created in this run
    failures,           \* library call sites that raised in this run
    uncaught            \* an exception escaped the script in this run

process == <<cache, disk, nextFile, ctorCalls, returned>>

locals == <<models, mode, model_name, selected_language, tts_model,
            speakers, speaker_idx, male_file, female_file,
            male_sample_path, female_sample_path, voice_type, clicked>>

observed == <<errors, calls, created, failures, uncaught, hit>>

vars == <<runs, pc, catalog, process, locals, observed>>

NoModels == [single_speaker |-> <<>>, voice_cloning |-> <<>>]

\* A script run starts with no locals and nothing observed.
FreshRun ==
    /\ models = NoModels
    /\ mode = Unset
    /\ model_name = NoModel
    /\ selected_language = Unset
    /\ tts_model = NoHandle
    /\ speakers = <<>>
    /\ speaker_idx = Unset
    /\ male_file = NoFile
    /\ female_file = NoFile
    /\ male_sample_path = NoPath
    /\ female_sample_path = NoPath
    /\ voice_type = Unset
    /\ clicked = FALSE
    /\ errors = <<>>
    /\ calls = <<>>
    /\ created = {}
    /\ failures = {}
    /\ uncaught = FALSE
    /\ hit = FALSE

FreshProcess ==
    /\ cache = <<>>
    /\ disk = {}
    /\ nextFile = 1
    /\ ctorCalls = <<>>
    /\ returned = <<>>

Init ==
    /\ runs = 0
    /\ pc = "idle"
    /\ catalog = InstalledCatalog
    /\ FreshProcess
    /\ FreshRun

\* ---------------------------------------------------------------- actions
\* A user interaction (or the first page load) reruns the script.
StartRun ==
    /\ pc = "idle"
    /\ runs < MaxRuns
    /\ runs' = runs + 1
    /\ pc' = "catalog"
    /\ UNCHANGED <<catalog, process, locals, observed>>

\* models = get_available_models()
GetAvailableModels ==
    /\ pc = "catalog"
    /\ \/ /\ models' = get_available_models(catalog)
          /\ pc' = "sidebar"
          /\ UNCHANGED observed
       \/ LET h == ExceptGetModels(LibError) IN
          /\ failures' = failures \cup {"enumerate"}
          /\ uncaught' = h.propagates
          /\ errors' = errors \o h.shown
          /\ models' = IF h.propagates THEN models ELSE h.result
          /\ pc' = IF h.propagates THEN "end" ELSE "sidebar"
          /\ UNCHANGED <<calls, created, hit>>
    /\ UNCHANGED <<runs, catalog, process, mode, model_name, selected_language,
                   tts_model, speakers, speaker_idx, male_file, female_file,
                   male_sample_path, female_sample_path, voice_type, clicked>>

\* mode radio, model selectbox and (voice cloning) language selectbox
Sidebar ==
    /\ pc = "sidebar"
    /\ mode' \in radio(<<"Pre-trained voices", "Voice cloning">>)
    /\ IF mode' = "Pre-trained voices"
       THEN /\ model_name' \in selectbox(models.single_speaker, NoModel)
            /\ UNCHANGED selected_language
       ELSE /\ model_name' \in selectbox(models.voice_cloning, NoModel)
            /\ selected_language' \in selectbox(languages, Unset)
    /\ pc' = IF model_name' # NoModel THEN "load" ELSE "end"
    /\ UNCHANGED <<runs, catalog, process, models, tts_model, speakers,
                   speaker_idx, male_file, female_file, male_sample_path,
                   female_sample_path, voice_type, clicked, observed>>

\* tts_model = load_tts_model(model_name), decorated with st.cache_resource
LoadTTSModel ==
    /\ pc = "load"
    /\ \/ /\ CacheHit(cache, model_name)
          /\ tts_model' = cache[model_name]
          \* st elements recorded inside the cached call are replayed
          /\ errors' = IF cache[model_name] = NoHandle
                       THEN errors \o ExceptLoad(LibError).shown ELSE errors
          /\ hit' = TRUE
          /\ UNCHANGED <<cache, ctorCalls, failures, uncaught>>
       \/ /\ ~ CacheHit(cache, model_name)
          /\ hit' = FALSE
          /\ ctorCalls' = CacheStore(ctorCalls, model_name,
                                      Lookup(ctorCalls, model_name, 0) + 1)
          /\ \/ /\ tts_model' = [model |-> model_name,
                                 serial |-> ctorCalls'[model_name]]
                /\ cache' = CacheStore(cache, model_name, tts_model')
                /\ UNCHANGED <<errors, failures, uncaught>>
             \/ LET h == ExceptLoad(LibError) IN
                /\ failures' = failures \cup {"load"}
                /\ uncaught' = h.propagates
                /\ errors' = errors \o h.shown
                /\ tts_model' = h.result
                /\ cache' = IF h.propagates THEN cache
                            ELSE CacheStore(cache, model_name, h.result)
    /\ returned' = CacheStore(returned, model_name,
                             Lookup(returned, model_name, {}) \cup {tts_model'})
    /\ pc' = IF uncaught' THEN "end" ELSE AfterLoad(tts_model', mode)
    /\ UNCHANGED <<runs, catalog, disk, nextFile, models, mode, model_name,
                   selected_language, speakers, speaker_idx, male_file,
                   female_file, male_sample_path, female_sample_path,
                   voice_type, clicked, calls, created>>

\* the speaker probe of pre-trained mode
ProbeSpeakers ==
    /\ pc = "probe"
    /\ \/ /\ speakers' = SpeakersOf(tts_model.model)
          /\ speaker_idx' \in selectbox(speakers', Unset)
          /\ pc' = "button"
          /\ UNCHANGED observed
       \/ LET h == ExceptProbe(LibError) IN
          /\ failures' = failures \cup {"probe"}
          /\ uncaught' = h.propagates
          /\ errors' = errors \o h.shown
          /\ pc' = IF h.propagates THEN "end" ELSE "button"
          /\ UNCHANGED <<speakers, speaker_idx, calls, created, hit>>
    /\ UNCHANGED <<runs, catalog, process, models, mode, model_name,
                   selected_language, tts_model, male_file, female_file,
                   male_sample_path, female_sample_path, voice_type, clicked>>

\* the two upload columns and the voice radio of voice cloning mode
SaveUploads ==
    /\ pc = "upload"
    /\ male_file' \in file_uploader("male.wav")
    /\ female_file' \in file_uploader("female.wav")
    /\ male_sample_path' = IF male_file' # NoFile
                           THEN NamedTemporaryFile("male", nextFile) ELSE NoPath
    /\ LET n == IF male_file' # NoFile THEN nextFile + 1 ELSE nextFile IN
       /\ female_sample_path' = IF female_file' # NoFile
                                THEN NamedTemporaryFile("female", n) ELSE NoPath
       /\ nextFile' = IF female_file' # NoFile THEN n + 1 ELSE n
    /\ LET new == {male_sample_path', female_sample_path'} \ {NoPath} IN
       /\ disk' = disk \cup new
       /\ created' = created \cup new
    /\ voice_type' \in radio(<<"Male", "Female">>)
    /\ pc' = "button"
    /\ UNCHANGED <<runs, catalog, cache, ctorCalls, returned,
                   models, mode, model_name, selected_language, tts_model,
                   speakers, speaker_idx, clicked, errors, calls, failures,
                   uncaught, hit>>

\* `if st.button("Generate Speech"):` evaluated false - nothing else runs.
NoClick ==
    /\ pc = "button"
    /\ clicked' = FALSE
    /\ pc' = "end"
    /\ UNCHANGED <<runs, catalog, process, models, mode, model_name,
                   selected_language, tts_model, speakers, speaker_idx,
                   male_file, female_file, male_sample_path,
                   female_sample_path, voice_type, observed>>

\* Generate Speech handler of pre-trained mode
GeneratePretrained ==
    /\ pc = "button"
    /\ mode = "Pre-trained voices"
    /\ clicked' = TRUE
    /\ LET temp_filename == NamedTemporaryFile("out", nextFile)
           call == [handle      |-> tts_model,
                    file_path   |-> temp_filename,
                    speaker     |-> SpeakerArg(speakers, speaker_idx),
                    speaker_wav |-> NoPath,
                    language    |-> Omitted]
       IN /\ nextFile' = nextFile + 1
          /\ created' = created \cup {temp_filename}
          /\ calls' = Append(calls, call)
          /\ \/ \* tts_to_file returns: read the file, show it, unlink it
                /\ disk' = unlink(disk \cup {temp_filename}, temp_filename)
                /\ UNCHANGED <<errors, failures, uncaught>>
             \/ \* tts_to_file raises: the except clause reports it
                LET h == ExceptSynth(LibError) IN
                /\ disk' = disk \cup {temp_filename}
                /\ failures' = failures \cup {"synth"}
                /\ uncaught' = h.propagates
                /\ errors' = errors \o h.shown
    /\ pc' = "end"
    /\ UNCHANGED <<runs, catalog, cache, ctorCalls, returned,
                   models, mode, model_name, selected_language, tts_model,
                   speakers, speaker_idx, male_file, female_file,
                   male_sample_path, female_sample_path, voice_type, hit>>

\* Generate Speech handler of voice cloning mode, a sample is present
GenerateCloning ==
    /\ pc = "button"
    /\ mode = "Voice cloning"
    /\ clicked' = TRUE
    /\ LET voice_sample_path ==
               VoiceSamplePath(voice_type, male_sample_path, female_sample_path)
           temp_filename == NamedTemporaryFile("out", nextFile)
           call == [handle      |-> tts_model,
                    file_path   |-> temp_filename,
                    speaker     |-> Omitted,
                    speaker_wav |-> voice_sample_path,
                    language    |-> selected_language]
       IN /\ voice_sample_path # NoPath
          /\ nextFile' = nextFile + 1
          /\ created' = created \cup {temp_filename}
          /\ calls' = Append(calls, call)
          /\ \/ \* tts_to_file returns: both files are unlinked
                /\ disk' = unlink(unlink(disk \cup {temp_filename},
                                         temp_filename), voice_sample_path)
                /\ UNCHANGED <<errors, failures, uncaught>>
             \/ \* tts_to_file raises: the except clause reports it
                LET h == ExceptSynth(LibError) IN
                /\ disk' = disk \cup {temp_filename}
                /\ failures' = failures \cup {"synth"}
                /\ uncaught' = h.propagates
                /\ errors' = errors \o h.shown
    /\ pc' = "end"
    /\ UNCHANGED <<runs, catalog, cache, ctorCalls, returned,
                   models, mode, model_name, selected_language, tts_model,
                   speakers, speaker_idx, male_file, female_file,
                   male_sample_path, female_sample_path, voice_type, hit>>

\* Generate Speech handler of voice cloning mode, no sample for the voice
GenerateMissingSample ==
    /\ pc = "button"
    /\ mode = "Voice cloning"
    /\ clicked' = TRUE
    /\ VoiceSamplePath(voice_type, male_sample_path, female_sample_path) = NoPath
    /\ errors' = Append(errors, MissingSample(voice_type))
    /\ pc' = "end"
    /\ UNCHANGED <<runs, catalog, process, models, mode, model_name,
                   selected_language, tts_model, speakers, speaker_idx,
                   male_file, female_file, male_sample_path,
                   female_sample_path, voice_type, calls, created, failures,
                   uncaught, hit>>

\* The script run is over: its locals are gone, the page waits for the user.
Finish ==
    /\ pc = "end"
    /\ pc' = "idle"
    /\ models' = NoModels
    /\ mode' = Unset
    /\ model_name' = NoModel
    /\ selected_language' = Unset
    /\ tts_model' = NoHandle
    /\ speakers' = <<>>
    /\ speaker_idx' = Unset
    /\ male_file' = NoFile
    /\ female_file' = NoFile
    /\ male_sample_path' = NoPath
    /\ female_sample_path' = NoPath
    /\ voice_type' = Unset
    /\ clicked' = FALSE
    /\ errors' = <<>>
    /\ calls' = <<>>
    /\ created' = {}
    /\ failures' = {}
    /\ uncaught' = FALSE
    /\ hit' = FALSE
    /\ UNCHANGED <<runs, catalog, process>>

Next ==
    \/ StartRun
    \/ GetAvailableModels
    \/ Sidebar
    \/ LoadTTSModel
    \/ ProbeSpeakers
    \/ SaveUploads
    \/ NoClick
    \/ GeneratePretrained
    \/ GenerateCloning
    \/ GenerateMissingSample
    \/ Finish

Spec == Init /\ [][Next]_vars

\* ------------------------------------------------- catalog specification
\* Every catalog the enumeration may return: lists of distinct identifiers.
Catalogs ==
    UNION {{s \in [1..n -> ModelUniverse] :
               \A i, j \in 1..n : s[i] = s[j] => i = j} : n \in 0..MaxCatalog}

CatalogInit ==
    /\ runs = 1
    /\ pc = "catalog"
    /\ catalog \in Catalogs
    /\ FreshProcess
    /\ FreshRun

CatalogNext ==
    GetAvailableModels

CatalogSpec == CatalogInit /\ [][CatalogNext]_vars

\* ----------------------------------------------------------------- claims
Reported(site) ==
    \E i \in DOMAIN errors : errors[i].at = site

HasCloningMarker(m) ==
    \E x \in {S_your_tts, S_xtts, S_multi_dataset} : Contains(x, m)

\* C1: once the enumeration has been classified, every identifier of the
\* catalog that contains a cloning marker ("your_tts", "xtts",
\* "multi-dataset") is in voice_cloning and not in single_speaker.
C1_CloningExclusive ==
    (pc = "sidebar" /\ "enumerate" \notin failures) =>
        \A i \in DOMAIN catalog :
            HasCloningMarker(catalog[i]) =>
                /\ catalog[i] \in Range(models.voice_cloning)
                /\ catalog[i] \notin Range(models.single_speaker)

\* C2: when a script run has finished, no output file created by that run
\* (by its Generate Speech handler) is still on disk.
C2_OutputFileRemoved ==
    pc = "end" => \A f \in created : f.kind = "out" => f \notin disk

\* C3: when a script run has finished, no temporary file holding an
\* uploaded reference sample is left on disk.
C3_NoSampleFileLeft ==
    pc \in {"end", "idle"} => \A f \in disk : f.kind \notin {"male", "female"}

\* C4: for every model, load_tts_model has returned at most one handle, and
\* the constructor has not been invoked again since that handle was built.
C4_SameHandleNoReload ==
    \A m \in DOMAIN returned :
        LET handles == returned[m] \ {NoHandle} IN
        /\ Cardinality(handles) <= 1
        /\ \A h \in handles : ctorCalls[m] = h.serial

\* C4 witness: a second call for a model was answered with its handle.
C4_Witness ==
    /\ pc \in {"probe", "upload"}
    /\ hit
    /\ tts_model # NoHandle

\* C5: a failed load leaves no cache entry, so no entry holds the failure
\* result.
C5_FailureNotCached ==
    \A m \in DOMAIN cache : cache[m] # NoHandle

\* C6: a Generate click in voice cloning mode with no sample uploaded for
\* the selected voice type shows exactly "Please upload a <voice type> voice
\* sample first", makes no tts_to_file call and creates no output file.
C6_MissingSampleRejected ==
    (/\ pc = "end"
     /\ mode = "Voice cloning"
     /\ clicked
     /\ (IF voice_type = "Male" THEN male_file ELSE female_file) = NoFile)
    => /\ errors = <<[at |-> "input",
                      msg |-> IF voice_type = "Male"
                              THEN <<"Please upload a ", "male", " voice sample first">>
                              ELSE <<"Please upload a ", "female", " voice sample first">>]>>
       /\ calls = <<>>
       /\ \A f \in created : f.kind # "out"

\* C6 witness: Female selected, only the male slot holds a sample, clicked.
C6_Witness ==
    /\ pc = "end"
    /\ mode = "Voice cloning"
    /\ clicked
    /\ voice_type = "Female"
    /\ female_file = NoFile
    /\ male_file # NoFile

\* The fixed 14-code set of the specification.
SupportedLanguageCodes ==
    {"en", "es", "fr", "de", "it", "pt", "pl", "tr", "ru", "nl", "cs", "ar",
     "zh-cn", "ja"}

\* C7: in voice cloning mode the selected language is one of the 14 codes,
\* every tts_to_file call carries one of them, and with any other language
\* no file is created and the library is not called.
C7_LanguageInFixedSet ==
    mode = "Voice cloning" =>
        /\ \A i \in DOMAIN calls : calls[i].language \in SupportedLanguageCodes
        /\ selected_language \notin SupportedLanguageCodes =>
               (created = {} /\ calls = <<>>)

\* C7 witness: a cloning call was made with the last code of the list.
C7_Witness ==
    /\ mode = "Voice cloning"
    /\ \E i \in DOMAIN calls :
           calls[i].language = "ja" /\ calls[i].speaker_wav # NoPath

\* C8 (as claimed): when a run has finished, no exception escaped it, every
\* library call site that raised (enumeration, load, speaker probe,
\* tts_to_file) has an error message, and a failed enumeration gave two
\* empty lists.
C8_EveryFailureReported ==
    pc = "end" =>
        /\ ~ uncaught
        /\ \A s \in failures : Reported(s)
        /\ "enumerate" \in failures => models = NoModels

\* C8 (amended): no exception ever escapes a run; a failure at enumeration,
\* load or tts_to_file has an error message; a failed enumeration gives two
\* empty lists; a failed speaker probe shows no message and leaves the
\* speaker list empty; and a started run can always take its next step.
C8_FailuresCaught ==
    /\ ~ uncaught
    /\ \A s \in failures \ {"probe"} : Reported(s)
    /\ "enumerate" \in failures => models = NoModels
    /\ "probe" \in failures => (speakers = <<>> /\ ~ Reported("probe"))
    /\ pc # "idle" => ENABLED Next

\* C8 witness: a run finished in which both the speaker probe and
\* tts_to_file raised.
C8_Witness ==
    /\ pc = "end"
    /\ failures = {"probe", "synth"}

\* What the speaker probe of this run found the model to expose.
Exposed ==
    IF "probe" \in failures THEN <<>> ELSE SpeakersOf(tts_model.model)

\* C9: in pre-trained mode a tts_to_file call has a speaker argument iff the
\* model exposes a non-empty speaker list, and the argument is the speaker
\* selected in this run, a member of that list.
C9_SpeakerArgument ==
    mode = "Pre-trained voices" =>
        \A i \in DOMAIN calls :
            /\ calls[i].speaker # Omitted <=> Exposed # <<>>
            /\ calls[i].speaker # Omitted =>
                   /\ calls[i].speaker = speaker_idx
                   /\ calls[i].speaker \in Range(SpeakersOf(model_name))

\* C9 witness: a call that passed the second speaker of a multi-speaker model.
C9_Witness ==
    /\ mode = "Pre-trained voices"
    /\ \E i \in DOMAIN calls : calls[i].speaker = "p226"

\* C10: a run makes at most one tts_to_file call, and only after a Generate
\* click, on the non-None handle load_tts_model returned for the selected
\* model.
C10_OneCallPerClick ==
    /\ Len(calls) <= 1
    /\ \A i \in DOMAIN calls :
           /\ clicked
           /\ calls[i].handle # NoHandle
           /\ calls[i].handle = tts_model
           /\ calls[i].handle.model = model_name
           /\ calls[i].handle \in Lookup(returned, model_name, {})

\* C10 witness: a run finished whose single call failed.
C10_Witness ==
    /\ pc = "end"
    /\ Len(calls) = 1
    /\ "synth" \in failures

=============================================================================
